---- MODULE Spec2Model ----
(***************************************************************************)
(* GolfCardSync OCR service (src/python-ocr/main.py): the /ocr endpoint    *)
(* ocr_scorecard and the pure extraction function extract_round_data.      *)
(*                                                                         *)
(* A text is a sequence of characters; a character is a one-element        *)
(* string.  Non-ASCII glyphs are written by their code point:              *)
(*   "U+2713" check mark        "U+2714" heavy check mark                  *)
(*   "U+2192" rightwards arrow  "U+2190" leftwards arrow                   *)
(*   "U+2191" upwards arrow     "U+2193" downwards arrow                   *)
(***************************************************************************)
EXTENDS Integers, Sequences, FiniteSets, TLC

VARIABLES
    pc,          \* position of the request inside ocr_scorecard
    image_ok,    \* input: do the uploaded bytes decode as an image
    calls,       \* functions the handler has called so far, in order
    raised,      \* the call whose exception the except clause caught, or "none"
    text,        \* raw text returned by pytesseract.image_to_string
    tokens,      \* local of extract_round_data: the digit runs
    scores_all,  \* local of extract_round_data: the score pool
    putts_all,   \* local of extract_round_data: the putt pool
    symbols,     \* local of extract_round_data: the normalized mark glyphs
    response     \* the JSONResponse returned: [status, body]

vars == <<pc, image_ok, calls, raised, text, tokens, scores_all, putts_all, symbols, response>>

----------------------------------------------------------------------------
(* Bounds of the input texts.                                              *)

MaxShortLen == 2     \* every text over the full alphabet up to this length
MaxUnitLen == 2      \* length of the unit that a repeated text repeats
MaxRep == 20         \* how often a repeated text repeats its unit
SatVal == 1000000    \* int() saturates here; the code compares with 1, 3, 9 only

----------------------------------------------------------------------------
(* Characters.                                                             *)

Digits == {"0", "1", "2", "3", "4", "5", "6", "7", "8", "9"}

\* main.py:34, the glyphs the character scan collects
MarkGlyphs == {"U+2713", "U+2714", "x", "X", "U+2192", "U+2190", "U+2191",
               "U+2193", "<", ">", "^", "v"}

\* characters that are neither digits nor collected glyphs
OtherChars == {" ", "V", "a"}

Alphabet == Digits \cup MarkGlyphs \cup OtherChars

\* the characters the repeated texts are built from
UnitChars == {"0", "1", "3", "9", " ", "U+2713", "x", "v"}

HOLES == 18

Min(a, b) == IF a <= b THEN a ELSE b

----------------------------------------------------------------------------
(* Python list primitives.                                                 *)

\* s[lo:hi] for 0 <= lo <= hi (0-based, hi exclusive, clamped to len(s))
Slice(s, lo, hi) == SubSeq(s, Min(lo, Len(s)) + 1, Min(hi, Len(s)))

\* [fill] * k : the empty list when k <= 0
Times(fill, k) == [i \in 1..k |-> fill]

----------------------------------------------------------------------------
(* extract_round_data                                                      *)

\* re.findall(r"[0-9]+", text): the maximal runs of ASCII digits, left to right
RECURSIVE scan_runs(_, _, _, _)
scan_runs(t, i, cur, acc) ==
    IF i > Len(t)
    THEN IF cur = <<>> THEN acc ELSE Append(acc, cur)
    ELSE IF t[i] \in Digits
         THEN scan_runs(t, i + 1, Append(cur, t[i]), acc)
         ELSE scan_runs(t, i + 1, <<>>, IF cur = <<>> THEN acc ELSE Append(acc, cur))

\* a mutant: every digit is a token of its own
findall_each_digit(t) == SelectSeq([i \in 1..Len(t) |-> <<t[i]>>], LAMBDA r : r[1] \in Digits)

findall_digits(t) == scan_runs(t, 1, <<>>, <<>>)

DigitVal == [c \in Digits |->
    CASE c = "0" -> 0 [] c = "1" -> 1 [] c = "2" -> 2 [] c = "3" -> 3 [] c = "4" -> 4
      [] c = "5" -> 5 [] c = "6" -> 6 [] c = "7" -> 7 [] c = "8" -> 8 [] c = "9" -> 9]

\* int(t) of a digit run: base 10, leading zeros allowed; saturating at SatVal
RECURSIVE int_from(_, _, _)
int_from(t, i, acc) ==
    IF i > Len(t) THEN acc
    ELSE int_from(t, i + 1, Min(acc * 10 + DigitVal[t[i]], SatVal))

int(t) == int_from(t, 1, 0)

\* main.py:26, the condition 3 <= int(t) <= 9
is_score(v) == 3 <= v /\ v <= 9

\* main.py:27, the condition 1 <= int(t) <= 3
is_putt(v) == 1 <= v /\ v <= 3

token_values(toks) == [i \in 1..Len(toks) |-> int(toks[i])]

\* main.py:26
scores_pool(toks) == SelectSeq(token_values(toks), is_score)

\* main.py:27
putts_pool(toks) == SelectSeq(token_values(toks), is_putt)

\* a mutant: one slot short
first18_short(s) == Slice(s, 0, HOLES - 1)

\* main.py:29, 30, 55: arr[:18]
first18(s) == Slice(s, 0, HOLES)

\* a mutant: the green marks start one entry early
next18_early(s) == Slice(s, HOLES - 1, 2 * HOLES - 1)

\* main.py:56: symbols[18:36]
next18(s) == Slice(s, HOLES, 2 * HOLES)

\* main.py:32-35: the characters of the text that are mark glyphs, in order
collect_symbols(t) == SelectSeq(t, LAMBDA ch : ch \in MarkGlyphs)

\* a mutant: the lower-case x is returned as it is
norm_symbol_case(c) ==
    IF c \in {"U+2713", "U+2714"} THEN "U+2713"
    ELSE IF c \in {"X"} THEN "X"
    ELSE IF c \in {">", "U+2192"} THEN "U+2192"
    ELSE IF c \in {"<", "U+2190"} THEN "U+2190"
    ELSE IF c \in {"^", "U+2191"} THEN "U+2191"
    ELSE IF c \in {"v", "V", "U+2193"} THEN "U+2193"
    ELSE c

\* a mutant: the caret is dropped to the empty mark
norm_symbol_blank(c) ==
    IF c \in {"U+2713", "U+2714"} THEN "U+2713"
    ELSE IF c \in {"x", "X"} THEN "X"
    ELSE IF c \in {">", "U+2192"} THEN "U+2192"
    ELSE IF c \in {"<", "U+2190"} THEN "U+2190"
    ELSE IF c \in {"U+2191"} THEN "U+2191"
    ELSE IF c \in {"v", "V", "U+2193"} THEN "U+2193"
    ELSE IF c = "^" THEN ""
    ELSE c

\* main.py:37-50
norm_symbol(c) ==
    IF c \in {"U+2713", "U+2714"} THEN "U+2713"
    ELSE IF c \in {"x", "X"} THEN "X"
    ELSE IF c \in {">", "U+2192"} THEN "U+2192"
    ELSE IF c \in {"<", "U+2190"} THEN "U+2190"
    ELSE IF c \in {"^", "U+2191"} THEN "U+2191"
    ELSE IF c \in {"v", "V", "U+2193"} THEN "U+2193"
    ELSE c

\* main.py:52
normalize_all(syms) == [i \in 1..Len(syms) |-> norm_symbol(syms[i])]

\* a mutant: nothing is appended
pad_none(arr, n, fill) == arr

\* a mutant: one fill too few
pad_short(arr, n, fill) == arr \o Times(fill, n - Len(arr) - 1)

\* a mutant: the fill goes in front
pad_left(arr, n, fill) == Times(fill, n - Len(arr)) \o arr

\* main.py:59-60
pad(arr, n, fill) == arr \o Times(fill, n - Len(arr))

\* main.py:18-73: the locals and the returned dict
extract_round_data(t) ==
    LET toks == findall_digits(t)
        sa == scores_pool(toks)
        pa == putts_pool(toks)
        syms == normalize_all(collect_symbols(t))
    IN  [tokens |-> toks,
         scores_all |-> sa,
         putts_all |-> pa,
         symbols |-> syms,
         data |-> [scores |-> pad(first18(sa), HOLES, 0),
                   putts |-> pad(first18(pa), HOLES, 0),
                   fairways |-> pad(first18(syms), HOLES, ""),
                   greens |-> pad(next18(syms), HOLES, ""),
                   raw_text |-> t]]

----------------------------------------------------------------------------
(* Input texts.                                                            *)

SeqsUpTo(S, n) == UNION {[1..k -> S] : k \in 0..n}

RECURSIVE Rep(_, _)
Rep(u, n) == IF n = 0 THEN <<>> ELSE u \o Rep(u, n - 1)

Prefixes == {<<>>, <<"4", " ", "1", " ">>, <<"^", "X">>}

ShortTexts == SeqsUpTo(Alphabet, MaxShortLen)

RepTexts == {p \o Rep(u, n) : p \in Prefixes,
                              u \in SeqsUpTo(UnitChars, MaxUnitLen) \ {<<>>},
                              n \in 1..MaxRep}

ScenarioA == <<"4", " ", "6", " ", "4", " ", "4", " ", "4", " ", "3", " ", "4", " ",
               "3", " ", "5", " ", "3", " ", "5", " ", "4", " ", "4", " ", "3", " ",
               "4", " ", "3", " ", "4", " ", "4">>

ScenarioB == <<"U+2713", " ", "x", " ", "U+2192", " ", "U+2190", " ", "^", " ", "v">>

\* "12 3 0 7 1 03x9"
MixedText == <<"1", "2", " ", "3", " ", "0", " ", "7", " ", "1", " ", "0", "3", "x", "9">>

Texts == ShortTexts \cup RepTexts \cup {ScenarioA, ScenarioB, MixedText}

----------------------------------------------------------------------------
(* ocr_scorecard                                                           *)

NoResponse == [status |-> 0, body |-> [pending |-> TRUE]]

Messages == {"cannot identify image file", "tesseract failed"}

\* a mutant: the failure is answered with status 200
except_ok_status(msg) == [status |-> 200, body |-> [error |-> msg]]

\* a mutant: the message is put under another key
except_detail_key(msg) == [status |-> 500, body |-> [detail |-> msg]]

\* main.py:85-86
except_Exception(msg) == [status |-> 500, body |-> [error |-> msg]]

\* main.py:84
JSONResponse(data) == [status |-> 200, body |-> data]

Init ==
    /\ pc = "start"
    /\ image_ok \in BOOLEAN
    /\ calls = <<>>
    /\ raised = "none"
    /\ text = <<>>
    /\ tokens = <<>>
    /\ scores_all = <<>>
    /\ putts_all = <<>>
    /\ symbols = <<>>
    /\ response = NoResponse

\* main.py:78-80, the image decodes
PreprocessOk ==
    /\ pc = "start"
    /\ image_ok
    /\ pc' = "preprocessed"
    /\ calls' = Append(calls, "preprocess_image")
    /\ UNCHANGED <<image_ok, raised, text, tokens, scores_all, putts_all, symbols, response>>

\* main.py:79 raises in Image.open (main.py:13); caught at main.py:85
PreprocessRaises ==
    /\ pc = "start"
    /\ ~image_ok
    /\ pc' = "done"
    /\ calls' = Append(calls, "preprocess_image")
    /\ raised' = "preprocess_image"
    /\ response' = except_Exception("cannot identify image file")
    /\ UNCHANGED <<image_ok, text, tokens, scores_all, putts_all, symbols>>

\* main.py:81 returns some text
RecognizeOk ==
    /\ pc = "preprocessed"
    /\ \E t \in Texts : text' = t
    /\ pc' = "recognized"
    /\ calls' = Append(calls, "image_to_string")
    /\ UNCHANGED <<image_ok, raised, tokens, scores_all, putts_all, symbols, response>>

\* main.py:81 raises; caught at main.py:85
RecognizeRaises ==
    /\ pc = "preprocessed"
    /\ pc' = "done"
    /\ calls' = Append(calls, "image_to_string")
    /\ raised' = "image_to_string"
    /\ response' = except_Exception("tesseract failed")
    /\ UNCHANGED <<image_ok, text, tokens, scores_all, putts_all, symbols>>

\* main.py:83-84
Extract ==
    /\ pc = "recognized"
    /\ LET r == extract_round_data(text)
       IN  /\ tokens' = r.tokens
           /\ scores_all' = r.scores_all
           /\ putts_all' = r.putts_all
           /\ symbols' = r.symbols
           /\ response' = JSONResponse(r.data)
    /\ pc' = "done"
    /\ calls' = Append(calls, "extract_round_data")
    /\ UNCHANGED <<image_ok, raised, text>>

Next ==
    \/ PreprocessOk
    \/ PreprocessRaises
    \/ RecognizeOk
    \/ RecognizeRaises
    \/ Extract

Spec == Init /\ [][Next]_vars

----------------------------------------------------------------------------
(* Helpers of the properties.                                              *)

\* the request ended with the dict returned by extract_round_data
Produced == pc = "done" /\ response.status = 200

data == response.body

RecordKeys == {"scores", "putts", "fairways", "greens", "raw_text"}

Hit == "U+2713"
MissGeneric == "X"
Right == "U+2192"
Left == "U+2190"
Long == "U+2191"
Short == "U+2193"
Empty == ""

Canonical == {Hit, MissGeneric, Right, Left, Long, Short}

Max(a, b) == IF a >= b THEN a ELSE b

RECURSIVE SumSeq(_)
SumSeq(s) == IF s = <<>> THEN 0 ELSE Head(s) + SumSeq(Tail(s))

AllEqual(s, v) == \A i \in 1..Len(s) : s[i] = v

\* out is pool cut to 18 entries from position off + 1, then filled up to 18
Aligned(out, pool, off, fill) ==
    LET k == Max(0, Min(Len(pool) - off, HOLES))
    IN  /\ Len(out) = HOLES
        /\ \A i \in 1..k : out[i] = pool[off + i]
        /\ \A i \in (k + 1)..HOLES : out[i] = fill

\* the defaults of an array form a suffix of it
DefaultsLast(arr, fill) ==
    \A i \in 1..(Len(arr) - 1) : arr[i] = fill => arr[i + 1] = fill

\* positions where a maximal digit run of t starts, and where that run ends
RunStarts(t) == {a \in 1..Len(t) : t[a] \in Digits /\ (a = 1 \/ t[a - 1] \notin Digits)}
RunEnd(t, a) == CHOOSE b \in a..Len(t) :
                    /\ \A j \in a..b : t[j] \in Digits
                    /\ (b = Len(t) \/ t[b + 1] \notin Digits)

\* the values of s that lie in S, in order
RECURSIVE Keep(_, _)
Keep(s, S) == IF s = <<>> THEN <<>>
              ELSE (IF Head(s) \in S THEN <<Head(s)>> ELSE <<>>) \o Keep(Tail(s), S)

----------------------------------------------------------------------------
(* C1: every record returned by extract_round_data has scores, putts,      *)
(* fairways and greens of length exactly 18, whatever the raw text.        *)
C1_Shape ==
    Produced => /\ Len(data.scores) = 18
                /\ Len(data.putts) = 18
                /\ Len(data.fairways) = 18
                /\ Len(data.greens) = 18

C1_Witness ==
    /\ Produced
    /\ Len(scores_all) > 18
    /\ Len(putts_all) < 18
    /\ Len(symbols) < 18

(* C2: scores (putts) is the first min(k,18) values of the score (putt)    *)
(* pool in order, followed by zeros up to 18; nothing after the 18th pool  *)
(* value appears.                                                          *)
C2_PadTruncate ==
    Produced => /\ Aligned(data.scores, scores_all, 0, 0)
                /\ Aligned(data.putts, putts_all, 0, 0)

C2_Witness ==
    /\ Produced
    /\ Len(scores_all) > 18
    /\ Len(putts_all) \in 1..17
    /\ scores_all[19] # scores_all[1]

(* C3: fairways is entries 1..18 of the normalized mark sequence and       *)
(* greens entries 19..36, each filled with Empty up to 18; later entries   *)
(* appear in neither.  The text of scenario B gives the six canonical      *)
(* marks followed by Empty as fairways and all Empty as greens.            *)
C3_Split ==
    Produced =>
        /\ Aligned(data.fairways, symbols, 0, Empty)
        /\ Aligned(data.greens, symbols, 18, Empty)
        /\ text = ScenarioB =>
              /\ data.fairways = <<Hit, MissGeneric, Right, Left, Long, Short>>
                                    \o [i \in 1..12 |-> Empty]
              /\ AllEqual(data.greens, Empty)

C3_Witness ==
    /\ Produced
    /\ Len(symbols) > 36
    /\ symbols[18] # symbols[19]

(* C4: the tokens are the maximal digit runs of the text; the score pool   *)
(* is the token values in [3,9] and the putt pool the token values in      *)
(* [1,3], both in order of appearance, so a 3 is in both pools and a 0 or  *)
(* a value of 10 or more is in neither.                                    *)
C4_Classify ==
    Produced =>
        LET starts == RunStarts(text)
            vals == [i \in 1..Len(tokens) |-> int(tokens[i])]
        IN  /\ Len(tokens) = Cardinality(starts)
            /\ \A a \in starts :
                  tokens[1 + Cardinality({q \in starts : q < a})]
                      = SubSeq(text, a, RunEnd(text, a))
            /\ scores_all = Keep(vals, 3..9)
            /\ putts_all = Keep(vals, 1..3)

C4_Witness ==
    /\ Produced
    /\ text = MixedText
    /\ tokens = << <<"1", "2">>, <<"3">>, <<"0">>, <<"7">>, <<"1">>, <<"0", "3">>, <<"9">> >>
    /\ scores_all = <<3, 7, 3, 9>>
    /\ putts_all = <<3, 1, 3>>

(* C5: every glyph the character scan collects is normalized to one of     *)
(* the six canonical marks, and normalizing the result again changes       *)
(* nothing.                                                                *)
C5_Normalize ==
    Produced =>
        /\ \A i \in 1..Len(text) :
              text[i] \in MarkGlyphs =>
                  /\ norm_symbol(text[i]) \in Canonical
                  /\ norm_symbol(norm_symbol(text[i])) = norm_symbol(text[i])
        /\ \A i \in 1..Len(symbols) :
              /\ symbols[i] \in Canonical
              /\ norm_symbol(symbols[i]) = symbols[i]

C5_Witness ==
    /\ Produced
    /\ text = <<"x", "v">>
    /\ symbols = <<MissGeneric, Short>>

C7_DecodeError ==
    ~image_ok =>
        /\ pc \in {"start", "done"}
        /\ \A i \in 1..Len(calls) : calls[i] = "preprocess_image"
        /\ text = <<>> /\ tokens = <<>> /\ symbols = <<>>
        /\ pc = "done" =>
              /\ raised = "preprocess_image"
              /\ DOMAIN response.body = {"error"}
              /\ response.body.error \in Messages
              /\ RecordKeys \cap DOMAIN response.body = {}

C7_Witness ==
    /\ ~image_ok
    /\ pc = "done"
    /\ calls = <<"preprocess_image">>

(* C8, as claimed: scenario A gives the 18 scores of the text with a       *)
(* front-nine sum of 36, a back-nine sum of 32 and a total of 68.          *)
C8_Original ==
    (Produced /\ text = ScenarioA) =>
        /\ data.scores = <<4, 6, 4, 4, 4, 3, 4, 3, 5, 3, 5, 4, 4, 3, 4, 3, 4, 4>>
        /\ SumSeq(SubSeq(data.scores, 1, 9)) = 36
        /\ SumSeq(SubSeq(data.scores, 10, 18)) = 32
        /\ SumSeq(data.scores) = 68

(* C8, amended: scenario A gives the 18 scores of the text; their          *)
(* front-nine sum is 37, their back-nine sum 34 and the total 71, the      *)
(* total being the sum of the two.  The dict has the keys scores, putts,   *)
(* fairways, greens and raw_text only.                                     *)
C8_Amended ==
    (Produced /\ text = ScenarioA) =>
        /\ data.scores = <<4, 6, 4, 4, 4, 3, 4, 3, 5, 3, 5, 4, 4, 3, 4, 3, 4, 4>>
        /\ SumSeq(SubSeq(data.scores, 1, 9)) = 37
        /\ SumSeq(SubSeq(data.scores, 10, 18)) = 34
        /\ SumSeq(data.scores) = 71
        /\ SumSeq(data.scores)
              = SumSeq(SubSeq(data.scores, 1, 9)) + SumSeq(SubSeq(data.scores, 10, 18))
        /\ DOMAIN data = RecordKeys

C8_Witness ==
    /\ Produced
    /\ text = ScenarioA
    /\ Len(tokens) = 18
    /\ Len(putts_all) = 5

C10_PrefixStructure ==
    Produced =>
        /\ \A i \in 1..Len(data.scores) : data.scores[i] \in {0} \cup 3..9
        /\ \A i \in 1..Len(data.putts) : data.putts[i] \in 0..3
        /\ DefaultsLast(data.scores, 0)
        /\ DefaultsLast(data.putts, 0)
        /\ DefaultsLast(data.fairways, Empty)
        /\ DefaultsLast(data.greens, Empty)
        /\ (\E i \in 1..Len(data.greens) : data.greens[i] # Empty)
              => \A j \in 1..Len(data.fairways) : data.fairways[j] # Empty

C10_Witness ==
    /\ Produced
    /\ Len(scores_all) \in 1..17
    /\ Len(putts_all) \in 1..17
    /\ Len(symbols) \in 19..35

====
